---- MODULE Spec2Model ----
(***************************************************************************)
(* Model of package objcache (src/objcache/objcache.go): the process-wide  *)
(* group registry, the creation hook, the get-or-load protocol of          *)
(* Group.Get and the lock-protected cache wrapper with its counters.       *)
(*                                                                         *)
(* Goroutines are the elements of Threads.  Every goroutine repeatedly     *)
(* calls one exported operation; pc[t] is its position inside the call and *)
(* loc[t] holds the call's arguments, locals and results.  A step is one   *)
(* atomic access (an atomic add, a lock acquisition, a racy load or store) *)
(* or one critical section together with the release of its lock.          *)
(*                                                                         *)
(* The bounded cache (package lru) is not part of the sources at hand; its *)
(* Add/Get/Len are modelled from the written contract: a key -> value map  *)
(* of at most MaxEntries entries whose OnEvicted callback runs for the     *)
(* entry removed for capacity and for the value displaced by an overwrite. *)
(* Which resident entry is removed for capacity is left open (any other    *)
(* entry).  The Getter is the environment: each call fails with some error *)
(* or produces a fresh Value.                                              *)
(***************************************************************************)
EXTENDS Integers, Sequences, FiniteSets, TLC

\* ---------------------------------------------------------------- bounds
\* The counters of a group grow with every Get, so the Get calls of a behaviour
\* are bounded; every other operation leaves a finite state space by itself.
MaxGets == 3          \* Group.Get calls in one behaviour
MaxCap == 2           \* largest cacheNum passed to NewGroup

Threads == {1, 2}
Names == {"n1", "n2"}
Keys == {"a", "b", "c"}
Hooks == {"h1", "h2"}
Errors == {"not found"}

NoThread == 0
NoGroup == 0
NoValue == 0
NoHook == "nil"
NoError == "nil"
NoKey == "-"
NoName == "-"

GroupIds == 1..Cardinality(Names)
Caps == 1..MaxCap

VARIABLES
    newGroupHook,   \* var newGroupHook func(*Group)
    mu,             \* var mu sync.RWMutex (registry lock)
    groups,         \* var groups map[string]*Group
    heap,           \* the allocated Group objects, by address
    disposed,       \* per group and Value: number of Dispose() calls received
    pc,             \* per goroutine: position in its current call
    loc,            \* per goroutine: arguments, locals and results of the call
    calls,          \* history: Get calls started
    hookCalls,      \* history: invocations of the creation hook
    ngDone,         \* history: per name, the groups NewGroup has returned
    regDone,        \* history: RegisterNewGroupHook calls that returned normally
    getterLog,      \* history: per group, Getter invocations per key
    lruLog          \* history: per group, the cacheNum it was created with, the
                    \* adds per key and the values the lru handed to OnEvicted

vars == <<newGroupHook, mu, groups, heap, disposed, pc, loc, calls, hookCalls,
          ngDone, regDone, getterLog, lruLog>>

\* ------------------------------------------------------------ sync.RWMutex
FreeMutex == [w |-> NoThread, r |-> {}]
\* Mutant of CanLock: Lock does not wait for the readers to leave.
CanLockIgnoresReaders(m) == m.w = NoThread

CanLock(m) == m.w = NoThread /\ m.r = {}
CanRLock(m) == m.w = NoThread
Lock(m, t) == [m EXCEPT !.w = t]
Unlock(m) == [m EXCEPT !.w = NoThread]
RLock(m, t) == [m EXCEPT !.r = @ \cup {t}]
RUnlock(m, t) == [m EXCEPT !.r = @ \ {t}]

\* ------------------------------------------------------------ package lru
\* lru.New(cacheNum)
LruNew(cacheNum) == [MaxEntries |-> cacheNum, entries |-> [k \in Keys |-> NoValue]]

\* (*lru.Cache).Len
LruLen(l) == Cardinality({k \in Keys : l.entries[k] # NoValue})

\* (*lru.Cache).Get
LruGet(l, key) == [value |-> l.entries[key], ok |-> l.entries[key] # NoValue]

\* (*lru.Cache).Add: the outcomes [lru, evicted] of adding key -> value, where
\* evicted is the set of values handed to OnEvicted.
LruAdd(l, key, value) ==
    IF l.entries[key] # NoValue
    THEN {[lru |-> [l EXCEPT !.entries[key] = value], evicted |-> {l.entries[key]}]}
    ELSE IF LruLen(l) >= l.MaxEntries
    THEN {[lru |-> [l EXCEPT !.entries[key] = value, !.entries[victim] = NoValue],
           evicted |-> {l.entries[victim]}] :
             victim \in {k \in Keys : l.entries[k] # NoValue}}
    ELSE {[lru |-> [l EXCEPT !.entries[key] = value], evicted |-> {}]}

\* ------------------------------------------------------------ AtomicInt
\* Mutant of AtomicAdd: the addition is lost.
AtomicAddLost(i, n) == i

\* (*AtomicInt).Add
AtomicAdd(i, n) == i + n

\* ------------------------------------------------------------ cache wrapper
\* A cache value c is the struct {mu, lru, nhit, nget, nevict}; d maps each Value
\* of the group to the number of Dispose calls it has received.

\* Mutant of CacheInit: the lru is created one entry too large.
CacheInitOffByOne(cacheNum) ==
    [mu |-> FreeMutex, lru |-> LruNew(cacheNum + 1), nhit |-> 0, nget |-> 0,
     nevict |-> 0]

\* (*cache).init, without the callback (OnEvicted below)
CacheInit(cacheNum) ==
    [mu |-> FreeMutex, lru |-> LruNew(cacheNum), nhit |-> 0, nget |-> 0, nevict |-> 0]

\* Mutant of OnEvicted: the callback disposes the value and forgets c.nevict++.
OnEvictedNoCount(s, value, err) ==
    [c |-> s.c,
     d |-> [s.d EXCEPT ![value] = @ + 1]]

\* Mutant of OnEvicted: the callback counts the eviction and forgets Dispose.
OnEvictedNoDispose(s, value, err) ==
    [c |-> [s.c EXCEPT !.nevict = @ + 1],
     d |-> s.d]

\* Mutant of OnEvicted: the callback counts each eviction twice.
OnEvictedCountsTwice(s, value, err) ==
    [c |-> [s.c EXCEPT !.nevict = @ + 2],
     d |-> [s.d EXCEPT ![value] = @ + 1]]

\* Mutant of OnEvicted: the callback returns early when Dispose fails.
OnEvictedStopsOnError(s, value, err) ==
    [c |-> [s.c EXCEPT !.nevict = IF err = NoError THEN @ + 1 ELSE @],
     d |-> [s.d EXCEPT ![value] = @ + 1]]

\* c.lru.OnEvicted as installed by (*cache).init: value.(Value).Dispose(); c.nevict++
\* where err is what this Dispose call returns, which the callback discards.
OnEvicted(s, value, err) ==
    [c |-> [s.c EXCEPT !.nevict = @ + 1],
     d |-> [s.d EXCEPT ![value] = @ + 1]]

\* The lru calling OnEvicted for each evicted value; errs[v] is what Dispose of v
\* returns.
RECURSIVE RunEvictions(_, _, _)
RunEvictions(s, evicted, errs) ==
    IF evicted = {} THEN s
    ELSE LET v == CHOOSE x \in evicted : TRUE
         IN RunEvictions(OnEvicted(s, v, errs[v]), evicted \ {v}, errs)

\* Mutant of CacheAdd: the value is never handed to the lru.
CacheAddDropped(c, d, key, value) ==
    {[c |-> c, d |-> d, evicted |-> {}, disposeErrs |-> {}]}

\* (*cache).add between Lock and Unlock: the outcomes [c, d, evicted, disposeErrs],
\* one for each choice of the lru and each result of the Dispose calls made;
\* disposeErrs is the set of errors those calls returned.
CacheAdd(c, d, key, value) ==
    UNION { { LET s == RunEvictions([c |-> [c EXCEPT !.lru = o.lru], d |-> d],
                                    o.evicted, errs)
              IN [c |-> s.c, d |-> s.d, evicted |-> o.evicted,
                  disposeErrs |-> {errs[v] : v \in o.evicted} \ {NoError}] :
                errs \in [o.evicted -> {NoError} \cup Errors] } :
            o \in LruAdd(c.lru, key, value) }

\* Mutant of CacheGet: the lookup result is ignored and a miss is reported.
CacheGetNoHit(c, key) ==
    [c |-> [c EXCEPT !.nget = @ + 1], value |-> NoValue, ok |-> FALSE]

\* (*cache).get between Lock and Unlock: [c, value, ok]
CacheGet(c, key) ==
    LET r == LruGet(c.lru, key)
    IN [c |-> [c EXCEPT !.nget = @ + 1, !.nhit = IF r.ok THEN @ + 1 ELSE @],
        value |-> IF r.ok THEN r.value ELSE NoValue,
        ok |-> r.ok]

\* (*cache).itemsLocked
ItemsLocked(c) == LruLen(c.lru)

\* ------------------------------------------------------------ Group
\* &Group{name: name, getter: getter} followed by g.mainCache.init(cacheNum)
MakeGroup(name, cacheNum) ==
    [name |-> name,
     mainCache |-> CacheInit(cacheNum),
     Stats |-> [Gets |-> 0, CacheHits |-> 0]]

\* ------------------------------------------------------------ goroutines
NoStats == [Items |-> 0, Gets |-> 0, Hits |-> 0, Evictions |-> 0]
NoEffect == [Gets |-> 0, CacheHits |-> 0, nget |-> 0, nhit |-> 0, nevict |-> 0,
             changed |-> 0, loads |-> 0]

IdleLoc ==
    [op |-> "none", name |-> NoName, cacheNum |-> 0, fn |-> NoHook,
     g |-> NoGroup, key |-> NoKey, val |-> NoValue, err |-> NoError,
     ok |-> FALSE, panicked |-> FALSE, stats |-> NoStats,
     loaded |-> [val |-> NoValue, err |-> NoError],
     hookAtCall |-> NoHook, knownAtCall |-> {}, eff |-> NoEffect,
     disposeErrs |-> {}]

\* What one step of a Get call changed in its group: the counters' increments and
\* the number of keys whose resident value changed.
Effect(e, old, new) ==
    [e EXCEPT
       !.Gets = @ + (new.Stats.Gets - old.Stats.Gets),
       !.CacheHits = @ + (new.Stats.CacheHits - old.Stats.CacheHits),
       !.nget = @ + (new.mainCache.nget - old.mainCache.nget),
       !.nhit = @ + (new.mainCache.nhit - old.mainCache.nhit),
       !.nevict = @ + (new.mainCache.nevict - old.mainCache.nevict),
       !.changed = @ + Cardinality({k \in Keys :
            new.mainCache.lru.entries[k] # old.mainCache.lru.entries[k]})]

Registered == {groups[n] : n \in Names} \ {NoGroup}

\* The goroutine is between calls: it has made none yet, or its last call has
\* returned (or panicked and was recovered) and loc[t] still shows its results.
Idle(t) == pc[t] \in {"idle", "done"}

Init ==
    /\ newGroupHook = NoHook
    /\ mu = FreeMutex
    /\ groups = [n \in Names |-> NoGroup]
    /\ heap = <<>>
    /\ disposed = <<>>
    /\ pc = [t \in Threads |-> "idle"]
    /\ loc = [t \in Threads |-> IdleLoc]
    /\ calls = 0
    /\ hookCalls = <<>>
    /\ ngDone = [n \in Names |-> {}]
    /\ regDone = <<>>
    /\ getterLog = <<>>
    /\ lruLog = <<>>

\* ------------------------------------------------------------ Group.Get
\* Mutant of GetBegin: Get does not count the call in Stats.Gets.
GetBeginNoCount(t, g, key) ==
    /\ Idle(t)
    /\ g \in Registered
    /\ calls < MaxGets
    /\ loc' = [loc EXCEPT ![t] = [IdleLoc EXCEPT !.op = "Get", !.g = g, !.key = key]]
    /\ pc' = [pc EXCEPT ![t] = "get_cache"]
    /\ calls' = calls + 1
    /\ UNCHANGED <<newGroupHook, mu, groups, heap, disposed, hookCalls, ngDone, regDone,
                   getterLog, lruLog>>

\* line 108: g.Stats.Gets.Add(1)
GetBegin(t, g, key) ==
    /\ Idle(t)
    /\ g \in Registered
    /\ calls < MaxGets
    /\ heap' = [heap EXCEPT ![g].Stats.Gets = AtomicAdd(@, 1)]
    /\ loc' = [loc EXCEPT ![t] = [IdleLoc EXCEPT !.op = "Get", !.g = g, !.key = key,
                                    !.eff = Effect(NoEffect, heap[g], heap'[g])]]
    /\ pc' = [pc EXCEPT ![t] = "get_cache"]
    /\ calls' = calls + 1
    /\ UNCHANGED <<newGroupHook, mu, groups, disposed, hookCalls, ngDone, regDone,
                   getterLog, lruLog>>

\* line 109: val, ok := g.mainCache.get(key), that is lines 163-171 from c.mu.Lock()
\* to the deferred c.mu.Unlock(); then line 110: if ok
GetCache(t) ==
    /\ pc[t] = "get_cache"
    /\ CanLock(heap[loc[t].g].mainCache.mu)
    /\ LET g == loc[t].g
           r == CacheGet(heap[g].mainCache, loc[t].key)
       IN /\ heap' = [heap EXCEPT ![g].mainCache = r.c]
          /\ loc' = [loc EXCEPT ![t].val = r.value, ![t].ok = r.ok,
                                ![t].eff = Effect(@, heap[g], heap'[g])]
          /\ pc' = [pc EXCEPT ![t] = IF r.ok THEN "get_hit" ELSE "get_load"]
    /\ UNCHANGED <<newGroupHook, mu, groups, disposed, calls, hookCalls, ngDone,
                   regDone, getterLog, lruLog>>

\* lines 111-112: g.Stats.CacheHits.Add(1); return
GetHit(t) ==
    /\ pc[t] = "get_hit"
    /\ LET g == loc[t].g
       IN /\ heap' = [heap EXCEPT ![g].Stats.CacheHits = AtomicAdd(@, 1)]
          /\ loc' = [loc EXCEPT ![t].eff = Effect(@, heap[g], heap'[g])]
    /\ pc' = [pc EXCEPT ![t] = "done"]
    /\ UNCHANGED <<newGroupHook, mu, groups, disposed, calls, hookCalls, ngDone,
                   regDone, getterLog, lruLog>>

\* Mutant of GetLoadFail: the Getter's error is assigned to a shadowing variable,
\* so that Get returns a nil error.
GetLoadFailShadowed(t, e) ==
    /\ pc[t] = "get_load"
    /\ LET g == loc[t].g
       IN getterLog' = [getterLog EXCEPT ![g][loc[t].key].fail = @ + 1]
    /\ loc' = [loc EXCEPT ![t].loaded = [val |-> NoValue, err |-> e],
                          ![t].val = NoValue, ![t].err = NoError,
                          ![t].eff.loads = @ + 1]
    /\ pc' = [pc EXCEPT ![t] = "done"]
    /\ UNCHANGED <<newGroupHook, mu, groups, heap, disposed, calls, hookCalls, ngDone,
                   regDone, lruLog>>

\* line 115: val, err = g.getter.Get(key), the Getter failing; lines 116, 119
GetLoadFail(t, e) ==
    /\ pc[t] = "get_load"
    /\ LET g == loc[t].g
       IN getterLog' = [getterLog EXCEPT ![g][loc[t].key].fail = @ + 1]
    /\ loc' = [loc EXCEPT ![t].loaded = [val |-> NoValue, err |-> e],
                          ![t].val = NoValue, ![t].err = e,
                          ![t].eff.loads = @ + 1]
    /\ pc' = [pc EXCEPT ![t] = "done"]
    /\ UNCHANGED <<newGroupHook, mu, groups, heap, disposed, calls, hookCalls, ngDone,
                   regDone, lruLog>>

\* line 115: val, err = g.getter.Get(key), the Getter producing a new Value; line 116
GetLoadOk(t) ==
    /\ pc[t] = "get_load"
    /\ LET g == loc[t].g
           v == Len(disposed[g]) + 1
       IN /\ disposed' = [disposed EXCEPT ![g] = Append(@, 0)]
          /\ getterLog' = [getterLog EXCEPT ![g][loc[t].key].ok = @ + 1]
          /\ loc' = [loc EXCEPT ![t].loaded = [val |-> v, err |-> NoError],
                                ![t].val = v, ![t].err = NoError,
                                ![t].eff.loads = @ + 1]
    /\ pc' = [pc EXCEPT ![t] = "add_cache"]
    /\ UNCHANGED <<newGroupHook, mu, groups, heap, calls, hookCalls, ngDone, regDone,
                   lruLog>>

\* Mutant of GetAdd: the eviction callback takes c.mu.Lock() itself while add
\* holds it, so that add never gets past the callback.
GetAddHookLocks(t) ==
    /\ pc[t] = "add_cache"
    /\ CanLock(Lock(heap[loc[t].g].mainCache.mu, t))
    /\ UNCHANGED vars

\* line 117: g.mainCache.add(key, val), that is lines 157-159 from c.mu.Lock() to
\* the deferred c.mu.Unlock(); line 119: return
GetAdd(t) ==
    /\ pc[t] = "add_cache"
    /\ CanLock(heap[loc[t].g].mainCache.mu)
    /\ LET g == loc[t].g
       IN \E r \in CacheAdd(heap[g].mainCache, disposed[g], loc[t].key, loc[t].val) :
            /\ heap' = [heap EXCEPT ![g].mainCache = r.c]
            /\ disposed' = [disposed EXCEPT ![g] = r.d]
            /\ lruLog' = [lruLog EXCEPT ![g].added[loc[t].key] = @ + 1,
                                        ![g].evicted = @ \cup r.evicted]
            /\ loc' = [loc EXCEPT ![t].eff = Effect(@, heap[g], heap'[g]),
                                  ![t].disposeErrs = r.disposeErrs]
    /\ pc' = [pc EXCEPT ![t] = "done"]
    /\ UNCHANGED <<newGroupHook, mu, groups, calls, hookCalls, ngDone, regDone,
                   getterLog>>

\* ------------------------------------------------------------ Group.CacheStats
\* Mutant of StatsRLock: stats reads the fields without taking the lock.
StatsNoRLock(t, g) ==
    /\ Idle(t)
    /\ g \in Registered
    /\ loc' = [loc EXCEPT ![t] = [IdleLoc EXCEPT !.op = "CacheStats", !.g = g]]
    /\ pc' = [pc EXCEPT ![t] = "stats_items"]
    /\ UNCHANGED <<newGroupHook, mu, groups, heap, disposed, calls, hookCalls, ngDone,
                   regDone, getterLog, lruLog>>

\* line 138: c.mu.RLock() in (*cache).stats
StatsRLock(t, g) ==
    /\ Idle(t)
    /\ g \in Registered
    /\ CanRLock(heap[g].mainCache.mu)
    /\ heap' = [heap EXCEPT ![g].mainCache.mu = RLock(@, t)]
    /\ loc' = [loc EXCEPT ![t] = [IdleLoc EXCEPT !.op = "CacheStats", !.g = g]]
    /\ pc' = [pc EXCEPT ![t] = "stats_items"]
    /\ UNCHANGED <<newGroupHook, mu, groups, disposed, calls, hookCalls, ngDone, regDone,
                   getterLog, lruLog>>

\* line 141: Items: c.itemsLocked()
StatsItems(t) ==
    /\ pc[t] = "stats_items"
    /\ loc' = [loc EXCEPT ![t].stats.Items = ItemsLocked(heap[loc[t].g].mainCache)]
    /\ pc' = [pc EXCEPT ![t] = "stats_gets"]
    /\ UNCHANGED <<newGroupHook, mu, groups, heap, disposed, calls, hookCalls, ngDone,
                   regDone, getterLog, lruLog>>

\* line 142: Gets: c.nget
StatsGets(t) ==
    /\ pc[t] = "stats_gets"
    /\ loc' = [loc EXCEPT ![t].stats.Gets = heap[loc[t].g].mainCache.nget]
    /\ pc' = [pc EXCEPT ![t] = "stats_hits"]
    /\ UNCHANGED <<newGroupHook, mu, groups, heap, disposed, calls, hookCalls, ngDone,
                   regDone, getterLog, lruLog>>

\* line 143: Hits: c.nhit
StatsHits(t) ==
    /\ pc[t] = "stats_hits"
    /\ loc' = [loc EXCEPT ![t].stats.Hits = heap[loc[t].g].mainCache.nhit]
    /\ pc' = [pc EXCEPT ![t] = "stats_evictions"]
    /\ UNCHANGED <<newGroupHook, mu, groups, heap, disposed, calls, hookCalls, ngDone,
                   regDone, getterLog, lruLog>>

\* line 144: Evictions: c.nevict, the deferred c.mu.RUnlock() and the return
StatsEvictions(t) ==
    /\ pc[t] = "stats_evictions"
    /\ loc' = [loc EXCEPT ![t].stats.Evictions = heap[loc[t].g].mainCache.nevict]
    /\ heap' = [heap EXCEPT ![loc[t].g].mainCache.mu = RUnlock(@, t)]
    /\ pc' = [pc EXCEPT ![t] = "done"]
    /\ UNCHANGED <<newGroupHook, mu, groups, disposed, calls, hookCalls, ngDone,
                   regDone, getterLog, lruLog>>

\* ------------------------------------------------------------ RegisterNewGroupHook
\* line 36: if newGroupHook != nil { panic(...) }
RegCheck(t, fn) ==
    /\ Idle(t)
    /\ IF newGroupHook # NoHook
       THEN /\ loc' = [loc EXCEPT ![t] = [IdleLoc EXCEPT !.op = "Register", !.fn = fn,
                                            !.panicked = TRUE]]
            /\ pc' = [pc EXCEPT ![t] = "done"]
       ELSE /\ loc' = [loc EXCEPT ![t] = [IdleLoc EXCEPT !.op = "Register", !.fn = fn]]
            /\ pc' = [pc EXCEPT ![t] = "reg_set"]
    /\ UNCHANGED <<newGroupHook, mu, groups, heap, disposed, calls, hookCalls, ngDone,
                   regDone, getterLog, lruLog>>

\* line 39: newGroupHook = fn
RegSet(t) ==
    /\ pc[t] = "reg_set"
    /\ newGroupHook' = loc[t].fn
    /\ regDone' = Append(regDone, loc[t].fn)
    /\ pc' = [pc EXCEPT ![t] = "done"]
    /\ UNCHANGED <<mu, groups, heap, disposed, loc, calls, hookCalls, ngDone,
                   getterLog, lruLog>>

\* ------------------------------------------------------------ NewGroup
\* Mutant of IsDup: the duplicate check is missing.
IsDupNever(name) == FALSE

\* line 86: _, dup := groups[name]
IsDup(name) == groups[name] # NoGroup

\* Mutant of NGEnter: mu.Unlock() is not deferred, so that the panic on a
\* duplicate name leaves mu locked.
NGEnterPanicKeepsLock(t, name, cacheNum) ==
    /\ Idle(t)
    /\ CanLock(mu)
    /\ IF IsDup(name)
       THEN /\ loc' = [loc EXCEPT ![t] = [IdleLoc EXCEPT !.op = "NewGroup",
                                            !.name = name, !.cacheNum = cacheNum,
                                            !.hookAtCall = newGroupHook,
                                            !.knownAtCall = ngDone[name],
                                            !.panicked = TRUE]]
            /\ pc' = [pc EXCEPT ![t] = "done"]
            /\ mu' = Lock(mu, t)
            /\ UNCHANGED <<heap, disposed, getterLog, lruLog>>
       ELSE /\ mu' = Lock(mu, t)
            /\ heap' = Append(heap, MakeGroup(name, cacheNum))
            /\ disposed' = Append(disposed, <<>>)
            /\ getterLog' = Append(getterLog, [k \in Keys |-> [ok |-> 0, fail |-> 0]])
            /\ lruLog' = Append(lruLog, [cacheNum |-> cacheNum,
                                         added |-> [k \in Keys |-> 0],
                                         evicted |-> {}])
            /\ loc' = [loc EXCEPT ![t] = [IdleLoc EXCEPT !.op = "NewGroup",
                                            !.name = name, !.cacheNum = cacheNum,
                                            !.hookAtCall = newGroupHook,
                                            !.knownAtCall = ngDone[name],
                                            !.g = Len(heap) + 1]]
            /\ pc' = [pc EXCEPT ![t] = "ng_hook"]
    /\ UNCHANGED <<newGroupHook, groups, calls, hookCalls, ngDone, regDone>>

\* line 84: mu.Lock(); lines 86-88: a duplicate panics, and the deferred
\* mu.Unlock() runs; lines 89-93: otherwise the Group is allocated and its cache
\* initialised, with mu held
NGEnter(t, name, cacheNum) ==
    /\ Idle(t)
    /\ CanLock(mu)
    /\ IF IsDup(name)
       THEN /\ loc' = [loc EXCEPT ![t] = [IdleLoc EXCEPT !.op = "NewGroup",
                                            !.name = name, !.cacheNum = cacheNum,
                                            !.hookAtCall = newGroupHook,
                                            !.knownAtCall = ngDone[name],
                                            !.panicked = TRUE]]
            /\ pc' = [pc EXCEPT ![t] = "done"]
            /\ UNCHANGED <<mu, heap, disposed, getterLog, lruLog>>
       ELSE /\ mu' = Lock(mu, t)
            /\ heap' = Append(heap, MakeGroup(name, cacheNum))
            /\ disposed' = Append(disposed, <<>>)
            /\ getterLog' = Append(getterLog, [k \in Keys |-> [ok |-> 0, fail |-> 0]])
            /\ lruLog' = Append(lruLog, [cacheNum |-> cacheNum,
                                         added |-> [k \in Keys |-> 0],
                                         evicted |-> {}])
            /\ loc' = [loc EXCEPT ![t] = [IdleLoc EXCEPT !.op = "NewGroup",
                                            !.name = name, !.cacheNum = cacheNum,
                                            !.hookAtCall = newGroupHook,
                                            !.knownAtCall = ngDone[name],
                                            !.g = Len(heap) + 1]]
            /\ pc' = [pc EXCEPT ![t] = "ng_hook"]
    /\ UNCHANGED <<newGroupHook, groups, calls, hookCalls, ngDone, regDone>>

\* Mutant of NGHook: the hook is run twice for the new group.
NGHookTwice(t) ==
    /\ pc[t] = "ng_hook"
    /\ hookCalls' =
         IF newGroupHook # NoHook
         THEN hookCalls \o
              << [fn |-> newGroupHook, g |-> loc[t].g, by |-> t,
                  registered |-> groups[loc[t].name] = loc[t].g],
                 [fn |-> newGroupHook, g |-> loc[t].g, by |-> t,
                  registered |-> groups[loc[t].name] = loc[t].g] >>
         ELSE hookCalls
    /\ pc' = [pc EXCEPT ![t] = "ng_store"]
    /\ UNCHANGED <<newGroupHook, mu, groups, heap, disposed, loc, calls, ngDone,
                   regDone, getterLog, lruLog>>

\* lines 94-96: if newGroupHook != nil { newGroupHook(g) }
NGHook(t) ==
    /\ pc[t] = "ng_hook"
    /\ hookCalls' =
         IF newGroupHook # NoHook
         THEN Append(hookCalls, [fn |-> newGroupHook, g |-> loc[t].g, by |-> t,
                                 registered |-> groups[loc[t].name] = loc[t].g])
         ELSE hookCalls
    /\ pc' = [pc EXCEPT ![t] = "ng_store"]
    /\ UNCHANGED <<newGroupHook, mu, groups, heap, disposed, loc, calls, ngDone,
                   regDone, getterLog, lruLog>>

\* Mutant of NGStore: the new group is returned without being stored in the map.
NGStoreMissing(t) ==
    /\ pc[t] = "ng_store"
    /\ mu' = Unlock(mu)
    /\ ngDone' = [ngDone EXCEPT ![loc[t].name] = @ \cup {loc[t].g}]
    /\ pc' = [pc EXCEPT ![t] = "done"]
    /\ UNCHANGED <<newGroupHook, groups, heap, disposed, loc, calls, hookCalls,
                   regDone, getterLog, lruLog>>

\* lines 97-98: groups[name] = g; return g, and the deferred mu.Unlock()
NGStore(t) ==
    /\ pc[t] = "ng_store"
    /\ groups' = [groups EXCEPT ![loc[t].name] = loc[t].g]
    /\ mu' = Unlock(mu)
    /\ ngDone' = [ngDone EXCEPT ![loc[t].name] = @ \cup {loc[t].g}]
    /\ pc' = [pc EXCEPT ![t] = "done"]
    /\ UNCHANGED <<newGroupHook, heap, disposed, loc, calls, hookCalls, regDone,
                   getterLog, lruLog>>

\* ------------------------------------------------------------ GetGroup
\* line 68: mu.RLock()
GGRLock(t, name) ==
    /\ Idle(t)
    /\ CanRLock(mu)
    /\ mu' = RLock(mu, t)
    /\ loc' = [loc EXCEPT ![t] = [IdleLoc EXCEPT !.op = "GetGroup", !.name = name,
                                    !.knownAtCall = ngDone[name]]]
    /\ pc' = [pc EXCEPT ![t] = "gg_read"]
    /\ UNCHANGED <<newGroupHook, groups, heap, disposed, calls, hookCalls, ngDone, regDone,
                   getterLog, lruLog>>

\* lines 69-71: g := groups[name]; mu.RUnlock(); return g
GGRead(t) ==
    /\ pc[t] = "gg_read"
    /\ loc' = [loc EXCEPT ![t].g = groups[loc[t].name]]
    /\ mu' = RUnlock(mu, t)
    /\ pc' = [pc EXCEPT ![t] = "done"]
    /\ UNCHANGED <<newGroupHook, groups, heap, disposed, calls, hookCalls, ngDone,
                   regDone, getterLog, lruLog>>

Next ==
    \E t \in Threads :
        \/ \E g \in GroupIds, key \in Keys : GetBegin(t, g, key)
        \/ GetCache(t)
        \/ GetHit(t)
        \/ \E e \in Errors : GetLoadFail(t, e)
        \/ GetLoadOk(t)
        \/ GetAdd(t)
        \/ \E g \in GroupIds : StatsRLock(t, g)
        \/ StatsItems(t)
        \/ StatsGets(t)
        \/ StatsHits(t)
        \/ StatsEvictions(t)
        \/ \E fn \in Hooks : RegCheck(t, fn)
        \/ RegSet(t)
        \/ \E name \in Names, cacheNum \in Caps : NGEnter(t, name, cacheNum)
        \/ NGHook(t)
        \/ NGStore(t)
        \/ \E name \in Names : GGRLock(t, name)
        \/ GGRead(t)

Spec == Init /\ [][Next]_vars

\* ------------------------------------------------------------ the registry alone
\* Spec is the whole package.  Its two halves do not interfere: the registry
\* operations never touch the cache or the counters of a group that exists, and
\* Get and CacheStats touch nothing but their own group.  The properties of the
\* registry are therefore checked under SpecRegistry and those of a group's
\* cache under SpecCache, each small enough to be explored exhaustively.
\*
\* The registry operations, with no Get or CacheStats call.
NextRegistry ==
    \E t \in Threads :
        \/ \E fn \in Hooks : RegCheck(t, fn)
        \/ RegSet(t)
        \/ \E name \in Names, cacheNum \in Caps : NGEnter(t, name, cacheNum)
        \/ NGHook(t)
        \/ NGStore(t)
        \/ \E name \in Names : GGRLock(t, name)
        \/ GGRead(t)

SpecRegistry == Init /\ [][NextRegistry]_vars

\* ------------------------------------------------------------ one group's cache
\* The state right after NewGroup("n1", cacheNum, getter) has returned, with no
\* hook installed; then Get and CacheStats calls on that group only.
InitCache ==
    \E cacheNum \in Caps :
        /\ newGroupHook = NoHook
        /\ mu = FreeMutex
        /\ groups = [n \in Names |-> IF n = "n1" THEN 1 ELSE NoGroup]
        /\ heap = <<MakeGroup("n1", cacheNum)>>
        /\ disposed = << <<>> >>
        /\ pc = [t \in Threads |-> "idle"]
        /\ loc = [t \in Threads |-> IdleLoc]
        /\ calls = 0
        /\ hookCalls = <<>>
        /\ ngDone = [n \in Names |-> IF n = "n1" THEN {1} ELSE {}]
        /\ regDone = <<>>
        /\ getterLog = <<[k \in Keys |-> [ok |-> 0, fail |-> 0]]>>
        /\ lruLog = <<[cacheNum |-> cacheNum, added |-> [k \in Keys |-> 0],
                       evicted |-> {}]>>

NextCache ==
    \E t \in Threads :
        \/ \E g \in GroupIds, key \in Keys : GetBegin(t, g, key)
        \/ GetCache(t)
        \/ GetHit(t)
        \/ \E e \in Errors : GetLoadFail(t, e)
        \/ GetLoadOk(t)
        \/ GetAdd(t)
        \/ \E g \in GroupIds : StatsRLock(t, g)
        \/ StatsItems(t)
        \/ StatsGets(t)
        \/ StatsHits(t)
        \/ StatsEvictions(t)

SpecCache == InitCache /\ [][NextCache]_vars

\* ------------------------------------------------------------ properties
Allocated == 1..Len(heap)
Entries(g) == heap[g].mainCache.lru.entries
Resident(g) == {Entries(g)[k] : k \in Keys} \ {NoValue}
Produced(g) == 1..Len(disposed[g])

RECURSIVE SumSeq(_)
SumSeq(q) == IF q = <<>> THEN 0 ELSE Head(q) + SumSeq(Tail(q))

\* C1: every value the bounded cache has evicted has received exactly one Dispose
\* call, no other value has received any (in particular no resident one), and
\* nevict equals the number of Dispose calls made.
EvictedDisposedOnce ==
    \A g \in Allocated :
        /\ \A v \in Produced(g) :
               disposed[g][v] = IF v \in lruLog[g].evicted THEN 1 ELSE 0
        /\ \A v \in Resident(g) : disposed[g][v] = 0
        /\ heap[g].mainCache.nevict = SumSeq(disposed[g])

\* An eviction has happened while another value is resident.
EvictedDisposedOnceWitness ==
    \E g \in Allocated :
        /\ lruLog[g].evicted # {}
        /\ Resident(g) # {}
        /\ heap[g].mainCache.nevict >= 1

\* Goroutine t takes the step that performs g.mainCache.get(key).
LooksUp(t) == pc[t] = "get_cache" /\ pc'[t] # "get_cache"

\* Goroutine t returns from Get on the hit path.
ReturnsHit(t) == pc[t] = "get_hit" /\ pc'[t] # "get_hit"

\* C2: a Get whose lookup finds the key resident takes the hit path with the
\* resident value (a value some successful load produced), and returns it with a
\* nil error without having invoked the Getter.
HitReturnsCachedValue ==
    [][\A t \in Threads :
         /\ (LooksUp(t) /\ Entries(loc[t].g)[loc[t].key] # NoValue) =>
               /\ pc'[t] = "get_hit"
               /\ loc'[t].ok
               /\ loc'[t].val = Entries(loc[t].g)[loc[t].key]
               /\ loc'[t].val \in Produced(loc[t].g)
               /\ lruLog[loc[t].g].added[loc[t].key] >= 1
         /\ ReturnsHit(t) =>
               /\ pc'[t] = "done"
               /\ loc'[t].val = loc[t].val
               /\ loc'[t].err = NoError
               /\ loc'[t].eff.loads = 0
               /\ getterLog' = getterLog]_vars

\* A Get has returned a cached value.
HitReturnsCachedValueWitness ==
    \E t \in Threads :
        /\ pc[t] = "done"
        /\ loc[t].op = "Get"
        /\ loc[t].ok
        /\ loc[t].val # NoValue

\* C3: a Get whose Getter failed returns the Getter's error; the call has raised
\* Stats.Gets and nget by one, has raised neither hit counter, and has changed no
\* entry of the cache and evicted nothing.
FailedLoadLeavesCache ==
    \A t \in Threads :
        (pc[t] = "done" /\ loc[t].op = "Get" /\ loc[t].loaded.err # NoError) =>
            /\ loc[t].err = loc[t].loaded.err
            /\ loc[t].eff.loads = 1
            /\ loc[t].eff.Gets = 1
            /\ loc[t].eff.nget = 1
            /\ loc[t].eff.CacheHits = 0
            /\ loc[t].eff.nhit = 0
            /\ loc[t].eff.changed = 0
            /\ loc[t].eff.nevict = 0

\* A Get has returned the Getter's error while the key is absent from the cache.
FailedLoadLeavesCacheWitness ==
    \E t \in Threads :
        /\ pc[t] = "done"
        /\ loc[t].op = "Get"
        /\ loc[t].err \in Errors
        /\ Entries(loc[t].g)[loc[t].key] = NoValue
        /\ heap[loc[t].g].Stats.Gets >= 1

\* C4: every snapshot CacheStats has returned has Hits <= Gets.
SnapshotHitsLeGets ==
    \A t \in Threads :
        (pc[t] = "done" /\ loc[t].op = "CacheStats") =>
            loc[t].stats.Hits <= loc[t].stats.Gets

\* CacheStats has returned a snapshot with a hit and a miss in it, taken while
\* the other goroutine was inside a Get.
SnapshotHitsLeGetsWitness ==
    \E t \in Threads :
        /\ pc[t] = "done"
        /\ loc[t].op = "CacheStats"
        /\ loc[t].stats.Hits >= 1
        /\ loc[t].stats.Gets > loc[t].stats.Hits
        /\ \E u \in Threads \ {t} : loc[u].op = "Get" /\ pc[u] # "done"

\* C5: a cache never holds more entries than the cacheNum of its group, and once
\* cacheNum + 1 distinct keys have been added (each once) it holds exactly
\* cacheNum entries, one eviction has been counted and the one evicted value has
\* been disposed and is not resident.
CapacityRespected ==
    \A g \in Allocated :
        LET n == lruLog[g].cacheNum
            added == {k \in Keys : lruLog[g].added[k] > 0}
        IN /\ ItemsLocked(heap[g].mainCache) <= n
           /\ ((\A k \in Keys : lruLog[g].added[k] <= 1) /\ Cardinality(added) = n + 1) =>
                 /\ ItemsLocked(heap[g].mainCache) = n
                 /\ heap[g].mainCache.nevict = 1
                 /\ Cardinality(lruLog[g].evicted) = 1
                 /\ \A v \in lruLog[g].evicted :
                        disposed[g][v] = 1 /\ v \notin Resident(g)

\* cacheNum + 1 distinct keys have been loaded into a group, all by misses.
CapacityRespectedWitness ==
    \E g \in Allocated :
        /\ \A k \in Keys : lruLog[g].added[k] <= 1
        /\ Cardinality({k \in Keys : lruLog[g].added[k] > 0}) = lruLog[g].cacheNum + 1
        /\ lruLog[g].cacheNum = MaxCap
        /\ heap[g].mainCache.nhit = 0
        /\ \A t \in Threads : pc[t] = "done"

\* The two goroutines have each returned from Get(key) on group g, these are the
\* only Get calls made so far, and the Getter never failed for key.
TwoGetsDone(g, key) ==
    /\ calls = 2
    /\ \A t \in Threads :
          pc[t] = "done" /\ loc[t].op = "Get" /\ loc[t].g = g /\ loc[t].key = key
    /\ getterLog[g][key].fail = 0

\* C9: after two Get calls for one key that was not cached before them, the Getter
\* has been invoked once or twice for the key (twice when both calls missed), both
\* calls have returned a nil error and a value the Getter produced, and the cache
\* holds one entry, for that key, whose value is one of the two returned values.
TwoMissesOneEntry ==
    \A g \in Allocated, key \in Keys :
        TwoGetsDone(g, key) =>
            /\ getterLog[g][key].ok \in {1, 2}
            /\ (\A t \in Threads : ~loc[t].ok) => getterLog[g][key].ok = 2
            /\ \A t \in Threads :
                  /\ loc[t].err = NoError
                  /\ loc[t].val \in Produced(g)
                  /\ ~loc[t].ok => loc[t].val = loc[t].loaded.val
            /\ Entries(g)[key] \in {loc[t].val : t \in Threads}
            /\ ItemsLocked(heap[g].mainCache) = 1

\* Both calls missed and both invoked the Getter, which returned two values.
TwoMissesOneEntryWitness ==
    \E g \in Allocated, key \in Keys :
        /\ TwoGetsDone(g, key)
        /\ \A t \in Threads : ~loc[t].ok
        /\ Cardinality({loc[t].val : t \in Threads}) = 2

\* Goroutine t has returned from (or panicked in) a call of op.
Finished(t, op) == pc[t] = "done" /\ loc[t].op = op

\* C6: NewGroup returns at most one group per name; a NewGroup call panics exactly
\* when a NewGroup call for its name had returned before it, so the first call
\* for each name succeeds whatever happened to other names; and a GetGroup made
\* after NewGroup(name) returned yields the group that call returned.
OneGroupPerName ==
    /\ \A n \in Names : Cardinality(ngDone[n]) <= 1
    /\ \A t \in Threads :
          Finished(t, "NewGroup") =>
              /\ loc[t].panicked <=> loc[t].knownAtCall # {}
              /\ ~loc[t].panicked => ngDone[loc[t].name] = {loc[t].g}
    /\ \A t \in Threads :
          (Finished(t, "GetGroup") /\ loc[t].knownAtCall # {}) =>
              loc[t].g \in loc[t].knownAtCall

\* Both names are registered, a second NewGroup for one of them has panicked and
\* a GetGroup has returned a registered group.
OneGroupPerNameWitness ==
    /\ \A n \in Names : ngDone[n] # {}
    /\ \E t \in Threads : Finished(t, "NewGroup") /\ loc[t].panicked
    /\ \E t \in Threads : Finished(t, "GetGroup") /\ loc[t].g # NoGroup

\* C7: at most one RegisterNewGroupHook call returns without panicking.
OneHookInstallation == Len(regDone) <= 1

\* Goroutine t takes a step that is a whole call of op, ending in a panic.
Panics(t, op) ==
    /\ Idle(t)
    /\ pc[t] = "idle" \/ loc'[t] # loc[t]
    /\ pc'[t] = "done"
    /\ loc'[t].op = op
    /\ loc'[t].panicked

\* The invocations of the creation hook made for group g.
HookCallsFor(g) == {i \in 1..Len(hookCalls) : hookCalls[i].g = g}

\* C8: a NewGroup call that began with a hook installed and has returned a group
\* has invoked the hook exactly once, for that group and from the calling
\* goroutine; no group has the hook invoked more than once; and a NewGroup call
\* that panics invokes no hook.
HookOncePerGroup ==
    /\ [](\A t \in Threads :
            (Finished(t, "NewGroup") /\ ~loc[t].panicked
                 /\ loc[t].hookAtCall # NoHook) =>
                /\ Cardinality(HookCallsFor(loc[t].g)) = 1
                /\ \A i \in HookCallsFor(loc[t].g) :
                       hookCalls[i].by = t /\ hookCalls[i].fn # NoHook)
    /\ [](\A g \in Allocated : Cardinality(HookCallsFor(g)) <= 1)
    /\ [][\A t \in Threads : Panics(t, "NewGroup") => hookCalls' = hookCalls]_vars

\* With a hook installed, one NewGroup has returned a group and another has
\* panicked on the same name.
HookOncePerGroupWitness ==
    /\ \E t \in Threads :
          Finished(t, "NewGroup") /\ ~loc[t].panicked /\ loc[t].hookAtCall # NoHook
    /\ \E t \in Threads : Finished(t, "NewGroup") /\ loc[t].panicked
    /\ hookCalls # <<>>

\* Goroutine t takes the step of GetGroup that reads the map.
ReadsMap(t) == pc[t] = "gg_read" /\ pc'[t] = "done"

\* C10: a name is bound in the map exactly when NewGroup has returned a group
\* for it, and then to that group; a binding never changes; and GetGroup returns
\* what the map holds when it reads it: nil exactly when no NewGroup for the
\* name has returned.
RegistryOnlyGrows ==
    /\ [](\A n \in Names :
            /\ groups[n] = NoGroup <=> ngDone[n] = {}
            /\ groups[n] # NoGroup => ngDone[n] = {groups[n]})
    /\ [][\A n \in Names : groups[n] # NoGroup => groups'[n] = groups[n]]_vars
    /\ [][\A t \in Threads :
            ReadsMap(t) =>
                /\ loc'[t].g = NoGroup <=> ngDone[loc[t].name] = {}
                /\ loc'[t].g # NoGroup => loc'[t].g \in ngDone[loc[t].name]]_vars

\* One GetGroup has returned nil for a name that is still unbound while another
\* has returned the group of a bound name.
RegistryOnlyGrowsWitness ==
    /\ \E t \in Threads :
          Finished(t, "GetGroup") /\ loc[t].g = NoGroup /\ groups[loc[t].name] = NoGroup
    /\ \E t \in Threads :
          Finished(t, "GetGroup") /\ loc[t].g # NoGroup
              /\ groups[loc[t].name] = loc[t].g

\* Value v of group g has been handed to g.mainCache.add by the Get that loaded
\* it: the Getter produced it and no goroutine still stands before its add.
Inserted(g, v) ==
    /\ v \in Produced(g)
    /\ ~\E t \in Threads : pc[t] = "add_cache" /\ loc[t].g = g /\ loc[t].val = v

\* C11: every value that Get has inserted and that is no longer the resident
\* value of its key has received exactly one Dispose call; and an add that
\* overwrites the entry of its key hands the displaced value to the eviction hook,
\* which disposes it.
DisplacedDisposedOnce ==
    /\ [](\A g \in Allocated : \A v \in Produced(g) :
            (Inserted(g, v) /\ v \notin Resident(g)) => disposed[g][v] = 1)
    /\ [][\A t \in Threads :
            LET g == loc[t].g
                old == Entries(g)[loc[t].key]
            IN (pc[t] = "add_cache" /\ pc'[t] = "done" /\ old # NoValue) =>
                  /\ old \in lruLog'[g].evicted
                  /\ disposed[g][old] = 0
                  /\ disposed'[g][old] = 1
                  /\ Entries(g)'[loc[t].key] = loc[t].val]_vars

\* Two Get calls for one key both missed and both added: the second add has
\* overwritten the first one's value, which is disposed and no longer resident.
DisplacedDisposedOnceWitness ==
    \E g \in Allocated, k \in Keys :
        /\ calls = 2
        /\ lruLog[g].added[k] = 2
        /\ \A t \in Threads : pc[t] = "done" /\ loc[t].op = "Get"
        /\ \E v \in Produced(g) :
              Inserted(g, v) /\ v \notin Resident(g) /\ disposed[g][v] = 1

\* Goroutine t is inside a Get call.
InGet(t) == loc[t].op = "Get" /\ pc[t] # "done"

\* The number of Getter invocations made for the keys ks of group g.
RECURSIVE LoadsOf(_, _)
LoadsOf(g, ks) ==
    IF ks = {} THEN 0
    ELSE LET k == CHOOSE x \in ks : TRUE
         IN getterLog[g][k].ok + getterLog[g][k].fail + LoadsOf(g, ks \ {k})

\* The Getter invocations of all groups; a Get that made none was a hit.
TotalLoads == SumSeq([g \in Allocated |-> LoadsOf(g, Keys)])

\* C12: a Get that has returned, whether it hit, missed or failed, has raised
\* Stats.Gets and nget by one each, and Stats.CacheHits and nhit by one each if
\* it hit and by nothing otherwise; with no Get in progress, over all groups,
\* Stats.Gets = nget = the number of Get calls made and Stats.CacheHits = nhit =
\* the number of those calls that hit (the calls that did not invoke the Getter).
CountersInParity ==
    /\ \A t \in Threads :
          (pc[t] = "done" /\ loc[t].op = "Get") =>
              /\ loc[t].eff.Gets = 1
              /\ loc[t].eff.nget = 1
              /\ loc[t].eff.CacheHits = (IF loc[t].ok THEN 1 ELSE 0)
              /\ loc[t].eff.nhit = (IF loc[t].ok THEN 1 ELSE 0)
              /\ loc[t].ok <=> loc[t].eff.loads = 0
    /\ (\A t \in Threads : ~InGet(t)) =>
          /\ SumSeq([g \in Allocated |-> heap[g].Stats.Gets]) = calls
          /\ SumSeq([g \in Allocated |-> heap[g].mainCache.nget]) = calls
          /\ SumSeq([g \in Allocated |-> heap[g].Stats.CacheHits]) = calls - TotalLoads
          /\ SumSeq([g \in Allocated |-> heap[g].mainCache.nhit]) = calls - TotalLoads

\* Three Get calls have returned: one hit, one loaded a value and one failed.
CountersInParityWitness ==
    /\ \A t \in Threads : ~InGet(t)
    /\ calls = 3
    /\ \E g \in Allocated :
          /\ heap[g].Stats.CacheHits = 1
          /\ \E k \in Keys : getterLog[g][k].ok = 1
          /\ \E k \in Keys : getterLog[g][k].fail = 1

\* The four quantities of a cache that stats reports.
Quantities(c) ==
    [Items |-> ItemsLocked(c), Gets |-> c.nget, Hits |-> c.nhit, Evictions |-> c.nevict]

\* Goroutine t is inside cache.stats, between RLock and RUnlock.
InStats(t) == pc[t] \in {"stats_items", "stats_gets", "stats_hits", "stats_evictions"}

\* C13: the result CacheStats returns is the four quantities of the cache in the
\* state in which it returns; and while a goroutine is between the reads of
\* cache.stats, no step (of cache.get, cache.add or the eviction hook) changes
\* any of the four quantities or an entry of that cache.
SnapshotIsOneState ==
    /\ [][\A t \in Threads :
            (pc[t] = "stats_evictions" /\ pc'[t] = "done") =>
                loc'[t].stats = Quantities(heap[loc[t].g].mainCache)]_vars
    /\ [][\A t \in Threads :
            InStats(t) =>
                /\ Quantities(heap'[loc[t].g].mainCache)
                       = Quantities(heap[loc[t].g].mainCache)
                /\ Entries(loc[t].g)' = Entries(loc[t].g)]_vars

\* CacheStats has returned a snapshot that shows an eviction, and the other
\* goroutine is inside a Get, at a cache operation it could not run meanwhile.
SnapshotIsOneStateWitness ==
    \E t \in Threads :
        /\ pc[t] = "done"
        /\ loc[t].op = "CacheStats"
        /\ loc[t].stats.Evictions >= 1
        /\ loc[t].stats.Items >= 1
        /\ \E u \in Threads \ {t} : pc[u] \in {"get_cache", "add_cache"}

\* C14: whenever NewGroup invokes the creation hook for a group, that group is
\* already bound to its name in the registry map.
HookSeesGroupRegistered ==
    \A i \in 1..Len(hookCalls) : hookCalls[i].registered

\* ------------------------------------------------------------ fair scheduling
\* The whole package on one name, one key and a cache of one entry, which keeps
\* the registry and a cache together small enough to follow every call to its end.
NextLocks ==
    \E t \in Threads :
        \/ \E g \in GroupIds : GetBegin(t, g, "a")
        \/ GetCache(t)
        \/ GetHit(t)
        \/ \E e \in Errors : GetLoadFail(t, e)
        \/ GetLoadOk(t)
        \/ GetAdd(t)
        \/ \E g \in GroupIds : StatsRLock(t, g)
        \/ StatsItems(t)
        \/ StatsGets(t)
        \/ StatsHits(t)
        \/ StatsEvictions(t)
        \/ RegCheck(t, "h1")
        \/ RegSet(t)
        \/ NGEnter(t, "n1", 1)
        \/ NGHook(t)
        \/ NGStore(t)
        \/ GGRLock(t, "n1")
        \/ GGRead(t)

\* The steps by which goroutine t carries on a call it is inside of.  That the
\* Getter and the creation hook return is part of it.
Continue(t) ==
    \/ GetCache(t)
    \/ GetHit(t)
    \/ \E e \in Errors : GetLoadFail(t, e)
    \/ GetLoadOk(t)
    \/ GetAdd(t)
    \/ StatsItems(t)
    \/ StatsGets(t)
    \/ StatsHits(t)
    \/ StatsEvictions(t)
    \/ RegSet(t)
    \/ NGHook(t)
    \/ NGStore(t)
    \/ GGRead(t)

\* A goroutine inside a call is scheduled again and again, and a goroutine
\* waiting in Lock gets the lock if it is free again and again (a waiting
\* sync.RWMutex writer keeps new readers out).  Whether a goroutine makes a
\* further call is left open.
SpecLocksFair ==
    Init /\ [][NextLocks]_vars /\ \A t \in Threads : SF_vars(Continue(t))

\* Goroutine t holds the registry lock, for writing or for reading.
HoldsRegistryLock(t) == mu.w = t \/ t \in mu.r

\* Goroutine t holds the lock of some group's cache.
HoldsCacheLock(t) ==
    \E g \in Allocated : heap[g].mainCache.mu.w = t \/ t \in heap[g].mainCache.mu.r

\* Goroutine t is about to take a cache lock, in cache.get or in cache.add.
AtCacheLock(t) == pc[t] \in {"get_cache", "add_cache"}

RECURSIVE AddsOf(_, _)
AddsOf(g, ks) ==
    IF ks = {} THEN 0
    ELSE LET k == CHOOSE x \in ks : TRUE
         IN lruLog[g].added[k] + AddsOf(g, ks \ {k})

\* C16: no step lowers (or resets) nget, nhit or nevict of a cache, and in every
\* state nevict is at most the number of cache.add calls made on that cache.
CountersOnlyGrow ==
    /\ [][\A g \in Allocated :
            /\ heap'[g].mainCache.nget >= heap[g].mainCache.nget
            /\ heap'[g].mainCache.nhit >= heap[g].mainCache.nhit
            /\ heap'[g].mainCache.nevict >= heap[g].mainCache.nevict]_vars
    /\ [](\A g \in Allocated : heap[g].mainCache.nevict <= AddsOf(g, Keys))

\* All three counters are positive and an add has taken place that evicted
\* nothing.
CountersOnlyGrowWitness ==
    \E g \in Allocated :
        /\ heap[g].mainCache.nhit >= 1
        /\ heap[g].mainCache.nget > heap[g].mainCache.nhit
        /\ heap[g].mainCache.nevict >= 1
        /\ heap[g].mainCache.nevict < AddsOf(g, Keys)

\* Goroutine t takes the step that performs g.mainCache.add(key, val) and
\* returns from Get.
AddsAndReturns(t) == pc[t] = "add_cache" /\ pc'[t] = "done"

\* C17: when a Dispose call made during the add of a Get returns an error, the
\* eviction is carried out all the same: the one evicted value is no longer
\* resident and has been disposed once, nevict has grown by one, the new value
\* is the entry of the key, and the Get returns the value it has just loaded
\* with a nil error.
DisposeErrorNotPropagated ==
    [][\A t \in Threads :
         (AddsAndReturns(t) /\ loc'[t].disposeErrs # {}) =>
             LET g == loc[t].g
                 gone == {v \in Produced(g) :
                             v \in Resident(g) /\ v \notin Resident(g)'}
             IN /\ Cardinality(gone) = 1
                /\ \A v \in gone : disposed[g][v] = 0 /\ disposed'[g][v] = 1
                /\ heap'[g].mainCache.nevict = heap[g].mainCache.nevict + 1
                /\ Entries(g)'[loc[t].key] = loc[t].val
                /\ loc'[t].val = loc[t].loaded.val
                /\ loc'[t].val # NoValue
                /\ loc'[t].err = NoError]_vars

\* A Get has returned a loaded value after an add in which Dispose of the
\* evicted value failed, and the loaded value is resident.
DisposeErrorNotPropagatedWitness ==
    \E t \in Threads :
        /\ pc[t] = "done"
        /\ loc[t].op = "Get"
        /\ loc[t].disposeErrs # {}
        /\ loc[t].err = NoError
        /\ Entries(loc[t].g)[loc[t].key] = loc[t].val
        /\ heap[loc[t].g].mainCache.nevict >= 1

\* C18: when a Get returns a value with a nil error, on the hit path or after
\* its add, that value has received no Dispose call.
ReturnedValueNotDisposed ==
    [][\A t \in Threads :
         ((ReturnsHit(t) \/ AddsAndReturns(t)) /\ loc'[t].err = NoError) =>
             disposed'[loc[t].g][loc'[t].val] = 0]_vars

\* The number of Get calls on group g that are in progress.
GetsInProgress(g) == Cardinality({t \in Threads : InGet(t) /\ loc[t].g = g})

\* Stats.CacheHits <= nhit <= nget <= Stats.Gets for group g.
Bracketed(g) ==
    /\ heap[g].Stats.CacheHits <= heap[g].mainCache.nhit
    /\ heap[g].mainCache.nhit <= heap[g].mainCache.nget
    /\ heap[g].mainCache.nget <= heap[g].Stats.Gets

\* C19 as stated: in every state Stats.CacheHits <= nhit <= nget <= Stats.Gets, and each
\* of the three gaps is at most the number of Get calls in progress.
CountersBracketedAllGaps ==
    \A g \in Allocated :
        /\ Bracketed(g)
        /\ heap[g].mainCache.nhit - heap[g].Stats.CacheHits <= GetsInProgress(g)
        /\ heap[g].mainCache.nget - heap[g].mainCache.nhit <= GetsInProgress(g)
        /\ heap[g].Stats.Gets - heap[g].mainCache.nget <= GetsInProgress(g)

\* C19: in every state Stats.CacheHits <= nhit <= nget <= Stats.Gets; the gaps
\* nhit - Stats.CacheHits and Stats.Gets - nget are each at most the number of
\* Get calls in progress; and nget - nhit is the number of lookups that have
\* missed: the Getter invocations made and those about to be made.
CountersBracketed ==
    \A g \in Allocated :
        /\ Bracketed(g)
        /\ heap[g].mainCache.nhit - heap[g].Stats.CacheHits <= GetsInProgress(g)
        /\ heap[g].Stats.Gets - heap[g].mainCache.nget <= GetsInProgress(g)
        /\ heap[g].mainCache.nget - heap[g].mainCache.nhit
              = LoadsOf(g, Keys)
                  + Cardinality({t \in Threads : pc[t] = "get_load" /\ loc[t].g = g})

\* One Get has counted itself in Stats.Gets and not yet in nget, another has
\* counted its hit in nhit and not yet in Stats.CacheHits, after a miss.
CountersBracketedWitness ==
    \E g \in Allocated :
        /\ \E t \in Threads : pc[t] = "get_cache" /\ loc[t].g = g
        /\ \E t \in Threads : pc[t] = "get_hit" /\ loc[t].g = g
        /\ heap[g].Stats.Gets - heap[g].mainCache.nget = 1
        /\ heap[g].mainCache.nhit - heap[g].Stats.CacheHits = 1
        /\ heap[g].mainCache.nget - heap[g].mainCache.nhit >= 1

\* C20: a NewGroup call that panics on a duplicate name changes neither the map
\* nor any Group and leaves the registry lock as it found it, free; once it has
\* panicked its goroutine holds no lock and the name is still bound to the
\* group it was bound to before the call; and a GetGroup that reads the map
\* for such a name gets that group.
DuplicatePanicChangesNothing ==
    /\ [][\A t \in Threads :
            Panics(t, "NewGroup") =>
                /\ groups' = groups
                /\ heap' = heap
                /\ ngDone' = ngDone
                /\ mu' = mu
                /\ CanLock(mu')]_vars
    /\ [](\A t \in Threads :
            (Finished(t, "NewGroup") /\ loc[t].panicked) =>
                /\ ~HoldsRegistryLock(t)
                /\ groups[loc[t].name] # NoGroup
                /\ loc[t].knownAtCall = {groups[loc[t].name]})
    /\ [][\A t \in Threads, u \in Threads :
            (Finished(t, "NewGroup") /\ loc[t].panicked /\ ReadsMap(u)
                 /\ loc[u].name = loc[t].name) =>
                loc[t].knownAtCall = {loc'[u].g}]_vars

\* A NewGroup has panicked on a duplicate name, and since then the other
\* goroutine has entered a GetGroup for that name and holds the read lock.
DuplicatePanicChangesNothingWitness ==
    \E t \in Threads, u \in Threads :
        /\ Finished(t, "NewGroup")
        /\ loc[t].panicked
        /\ pc[u] = "gg_read"
        /\ loc[u].name = loc[t].name
        /\ u \in mu.r

====
